---- MODULE Spec2Model ----
(***************************************************************************)
(* iron.nvim: rplugin/python3/iron/__init__.py, class Iron.                *)
(*                                                                         *)
(* The plugin keeps one dict, self.__repl, from file type to the REPL       *)
(* definition chosen for it.  The values stored are the dict objects of     *)
(* iron.repls.available_repls themselves (get_repl_template returns         *)
(* repls[0], not a copy), or a fresh empty dict when nothing was found.     *)
(* Python strings are modelled as sequences of one-character strings.       *)
(***************************************************************************)
EXTENDS Integers, Sequences, FiniteSets, TLC

VARIABLES
    available_repls,  \* iron.repls.available_repls: the list of definition dicts
    repl,             \* self.__repl: file type -> entry (a reference to a dict)
    ft,               \* nvim.current.buffer.options["ft"]
    jobs,             \* the jobs nvim has started with termopen, by job id
    trace             \* what the most recent handler did

vars == <<available_repls, repl, ft, jobs, trace>>

\* The number of jobs nvim starts in a run.
MaxJobs == 2

NL == "\n"
CR == "\r"

\* "\n" in data
Contains(s, c) == \E i \in 1..Len(s) : s[i] = c

FileTypes == {"python", "sh"}

Texts == { <<"x">>, <<"a", NL, "b">>, <<"a", NL>> }

BindingNames == {"clear", "other"}

\* An optional dict key is a sequence of length 0 (key absent) or 1.
NoKey == <<>>

\* The definitions of iron.repls: two for python (the first with multiline
\* markers and a mapping), one for sh.
iron_repls ==
    << [language |-> "python", command |-> "ipython",
        multiline |-> << << <<"b","e","g","i","n">>, <<"e","n","d">> >> >>,
        mappings |-> << <<"<leader>c", "clear", "cb_clear">> >>,
        fns |-> NoKey, repl_id |-> NoKey],
       [language |-> "python", command |-> "python",
        multiline |-> NoKey,
        mappings |-> <<>>,
        fns |-> NoKey, repl_id |-> NoKey],
       [language |-> "sh", command |-> "bash",
        multiline |-> NoKey,
        mappings |-> << <<"<leader>c", "clear", "cb_clear_sh">> >>,
        fns |-> NoKey, repl_id |-> NoKey] >>

\* What calling k['detect']() can do.
DetectOutcomes == {"true", "false", "raise"}

\* The definitions whose language is f, in the order of available_repls.
Candidates(f) ==
    SelectSeq([i \in 1..Len(available_repls) |-> i],
              LAMBDA i : available_repls[i].language = f)

\* The environment a lookup for f probes: what detect() of each definition of
\* language f does when it is called now.
Environments(f) ==
    [{Candidates(f)[p] : p \in 1..Len(Candidates(f))} -> DetectOutcomes]

\* A value of self.__repl.get(ft): None (present = FALSE), a fresh {} (obj = 0)
\* or the dict object available_repls[obj].
NoEntry == [present |-> FALSE, obj |-> 0]

Entry(o) == [present |-> TRUE, obj |-> o]

\* Python truth of a value of self.__repl.get(..): None and {} are false.
Truthy(e) == e.present /\ e.obj # 0

\* One call into nvim.
HostCall(fn, arg, job, data) == [fn |-> fn, arg |-> arg, job |-> job, data |-> data]

Idle ==
    [op |-> "none", target |-> "", text |-> <<>>, name |-> "", cur |-> "",
     calls |-> <<>>, detects |-> <<>>, template |-> <<>>, callbacks |-> <<>>,
     raised |-> "", env |-> {}, detectable |-> FALSE, pre_repl |-> repl, pre_repls |-> available_repls]

\* get_ft
get_ft == ft

\* A faulty get_current_repl: with no entry for the current file type, falls
\* back to a session of another file type.
get_current_repl_fallback ==
    IF repl[ft].present THEN repl[ft]
    ELSE IF \E g \in FileTypes : Truthy(repl[g])
    THEN repl[CHOOSE g \in FileTypes : Truthy(repl[g])]
    ELSE NoEntry

\* get_current_repl
get_current_repl == repl[get_ft]

\* A faulty get_repl_template: returns the last match, repls[-1].
get_repl_template_last(f, detect) ==
    LET cand == Candidates(f)
        bad == {p \in 1..Len(cand) : detect[cand[p]] = "raise"}
        firstBad == IF bad = {} THEN 0
                    ELSE CHOOSE p \in bad : \A q \in bad : p <= q
        repls == SelectSeq(cand, LAMBDA i : detect[i] = "true")
    IN  IF firstBad # 0
        THEN [raised |-> TRUE, detects |-> SubSeq(cand, 1, firstBad), obj |-> 0]
        ELSE [raised |-> FALSE, detects |-> cand,
              obj |-> IF Len(repls) > 0 THEN repls[Len(repls)] ELSE 0]

\* get_repl_template: filter available_repls by language and detect(), in
\* order; detect() is called for every definition of the language until one
\* raises.  obj = 0 stands for the fresh {} returned when nothing matches.
get_repl_template(f, detect) ==
    LET cand == Candidates(f)
        bad == {p \in 1..Len(cand) : detect[cand[p]] = "raise"}
        firstBad == IF bad = {} THEN 0
                    ELSE CHOOSE p \in bad : \A q \in bad : p <= q
        repls == SelectSeq(cand, LAMBDA i : detect[i] = "true")
    IN  IF firstBad # 0
        THEN [raised |-> TRUE, detects |-> SubSeq(cand, 1, firstBad), obj |-> 0]
        ELSE [raised |-> FALSE, detects |-> cand,
              obj |-> IF Len(repls) > 0 THEN repls[1] ELSE 0]

\* A faulty set_repl_for_ft: looks up again while the stored entry is empty
\* (if not self.__repl.get(ft)).
set_repl_for_ft_retry(f, detect) ==
    IF Truthy(repl[f])
    THEN [raised |-> FALSE, detects |-> <<>>, template |-> <<>>,
          repl |-> repl, obj |-> repl[f].obj]
    ELSE LET t == get_repl_template(f, detect)
         IN  IF t.raised
             THEN [raised |-> TRUE, detects |-> t.detects, template |-> <<>>,
                   repl |-> repl, obj |-> 0]
             ELSE [raised |-> FALSE, detects |-> t.detects, template |-> <<t.obj>>,
                   repl |-> [repl EXCEPT ![f] = Entry(t.obj)], obj |-> t.obj]

\* A faulty set_repl_for_ft: stores the new entry in a new registry
\* (self.__repl = {ft: ...}), dropping the other entries.
set_repl_for_ft_reset(f, detect) ==
    IF repl[f].present
    THEN [raised |-> FALSE, detects |-> <<>>, template |-> <<>>,
          repl |-> repl, obj |-> repl[f].obj]
    ELSE LET t == get_repl_template(f, detect)
         IN  IF t.raised
             THEN [raised |-> TRUE, detects |-> t.detects, template |-> <<>>,
                   repl |-> repl, obj |-> 0]
             ELSE [raised |-> FALSE, detects |-> t.detects, template |-> <<t.obj>>,
                   repl |-> [g \in FileTypes |->
                                IF g = f THEN Entry(t.obj) ELSE NoEntry],
                   obj |-> t.obj]

\* A faulty set_repl_for_ft: without the 'if ft not in self.__repl' test, it
\* looks up and stores on every call.
set_repl_for_ft_always(f, detect) ==
    LET t == get_repl_template(f, detect)
    IN  IF t.raised
        THEN [raised |-> TRUE, detects |-> t.detects, template |-> <<>>,
              repl |-> repl, obj |-> 0]
        ELSE [raised |-> FALSE, detects |-> t.detects, template |-> <<t.obj>>,
              repl |-> [repl EXCEPT ![f] = Entry(t.obj)], obj |-> t.obj]

\* set_repl_for_ft
set_repl_for_ft(f, detect) ==
    IF repl[f].present
    THEN [raised |-> FALSE, detects |-> <<>>, template |-> <<>>,
          repl |-> repl, obj |-> repl[f].obj]
    ELSE LET t == get_repl_template(f, detect)
         IN  IF t.raised
             THEN [raised |-> TRUE, detects |-> t.detects, template |-> <<>>,
                   repl |-> repl, obj |-> 0]
             ELSE [raised |-> FALSE, detects |-> t.detects, template |-> <<t.obj>>,
                   repl |-> [repl EXCEPT ![f] = Entry(t.obj)], obj |-> t.obj]

\* What a handler leaves in trace; cur and the pre_ fields are the state it
\* started from.
Did(op, target, text, name, calls, detects, template, callbacks, raised, env, detectable) ==
    [op |-> op, target |-> target, text |-> text, name |-> name, cur |-> ft,
     calls |-> calls, detects |-> detects, template |-> template,
     callbacks |-> callbacks, raised |-> raised, env |-> env,
     detectable |-> detectable,
     pre_repl |-> repl, pre_repls |-> available_repls]

\* The binding table after the first j mappings have been recorded: a set of
\* <<name, callback>>, a later mapping of a name replacing an earlier one.
FnsAfter(mp, j) ==
    { <<mp[i][2], mp[i][3]>> : i \in { i \in 1..j :
          \A k \in (i+1)..j : mp[k][2] # mp[i][2] } }

\* The nvim calls of open_repl_for once a definition d was found (lines 107-128).
OpenCalls(d, f) ==
    << HostCall("command", "spl | wincmd j | enew", 0, <<>>),
       HostCall("termopen", d.command, 0, <<>>),
       HostCall("buffer.vars", "nvimux_buf_orientation", 0, <<>>) >>
    \o [i \in 1..Len(d.mappings) |-> HostCall("command:nnoremap", d.mappings[i][2], 0, <<>>)]
    \o << HostCall("buffer.number", "", 0, <<>>),
          HostCall("vars", f, 0, <<>>) >>

\* open_repl_for(f), entered from a command that first made the calls `entry`,
\* in an environment where the detect() functions behave as `detect`.
\* An nvim call made after the registry was written may raise (fail is its
\* position, 0 for none); the handler then stops where it is.
open_repl_for(f, entry, detect) ==
    LET s == set_repl_for_ft(f, detect)
        able == \E i \in DOMAIN detect : detect[i] = "true"
        \* what the lookup, when there was one, had before it
        env == IF repl[f].present THEN {}
               ELSE {<<i, detect[i]>> : i \in DOMAIN detect}
    IN  \/ /\ s.raised
           /\ trace' = Did("open", f, <<>>, "", entry, s.detects, s.template, <<>>,
                           "DetectError", env, able)
           /\ UNCHANGED <<available_repls, repl, ft, jobs>>
        \/ /\ ~s.raised
           /\ s.obj = 0
           /\ \E fail \in 0..1 :
                 trace' = Did("open", f, <<>>, "",
                              entry \o <<HostCall("command:echomsg", f, 0, <<>>)>>,
                              s.detects, s.template, <<>>,
                              IF fail = 1 THEN "HostError" ELSE "", env, able)
           /\ repl' = s.repl
           /\ UNCHANGED <<available_repls, ft, jobs>>
        \/ /\ ~s.raised
           /\ s.obj # 0
           /\ Len(jobs) < MaxJobs
           /\ LET d == available_repls[s.obj]
                  oc == OpenCalls(d, f)
                  m == Len(d.mappings)
                  repl_id == Len(jobs) + 1
              IN  \E fail \in 0..Len(oc) :
                     LET n == IF fail = 0 THEN Len(oc) ELSE fail - 1
                         made == IF fail = 0 THEN oc ELSE SubSeq(oc, 1, fail)
                         j == IF n - 3 < m THEN n - 3 ELSE m
                     IN  /\ trace' = Did("open", f, <<>>, "", entry \o made, s.detects,
                                         s.template, <<>>,
                                         IF fail # 0 THEN "HostError" ELSE "", env,
                                         able)
                         /\ repl' = s.repl
                         /\ jobs' = IF n >= 2
                                    THEN Append(jobs, [command |-> d.command, ft |-> f])
                                    ELSE jobs
                         /\ available_repls' =
                               [available_repls EXCEPT ![s.obj] =
                                   [d EXCEPT
                                      !.fns = IF n >= 3 THEN <<FnsAfter(d.mappings, j)>>
                                              ELSE d.fns,
                                      !.repl_id = IF n >= 3 + m THEN <<repl_id>>
                                                  ELSE d.repl_id]]
                         \* 'spl | wincmd j | enew' leaves nvim in a new buffer
                         /\ ft' \in IF n >= 1 THEN FileTypes ELSE {ft}

\* :IronRepl
get_repl ==
    \E detect \in Environments(get_ft) :
        open_repl_for(get_ft, <<HostCall("buffer.options", "ft", 0, <<>>)>>, detect)

\* prompt
prompt == << HostCall("inputsave", "", 0, <<>>),
             HostCall("input", "iron> repl type: ", 0, <<>>),
             HostCall("inputrestore", "", 0, <<>>) >>

\* :IronPromptRepl, the user answering f
prompt_query(f) ==
    \E detect \in Environments(f) : open_repl_for(f, prompt, detect)

\* A faulty get_current_bindings: one binding table for all sessions.
get_current_bindings_shared ==
    LET r == get_current_repl
    IN  IF ~r.present THEN [raised |-> "AttributeError", fns |-> {}]
        ELSE [raised |-> "",
              fns |-> UNION { available_repls[repl[g].obj].fns[1] :
                                g \in {g \in FileTypes :
                                          /\ Truthy(repl[g])
                                          /\ available_repls[repl[g].obj].fns # NoKey} }]

\* get_current_bindings: get_current_repl().get('fns', {}).  None has no get.
get_current_bindings ==
    LET r == get_current_repl
    IN  IF ~r.present THEN [raised |-> "AttributeError", fns |-> {}]
        ELSE IF r.obj = 0 \/ available_repls[r.obj].fns = NoKey
        THEN [raised |-> "", fns |-> {}]
        ELSE [raised |-> "", fns |-> available_repls[r.obj].fns[1]]

\* A faulty sanitize_multiline: wraps whether or not the text has a newline.
sanitize_multiline_always(data) ==
    LET r == repl[get_ft]
        calls == <<HostCall("buffer.options", "ft", 0, <<>>)>>
    IN  IF Truthy(r)
        THEN LET d == available_repls[r.obj]
             IN  IF d.multiline = NoKey
                 THEN [calls |-> calls, raised |-> "KeyError", data |-> <<>>]
                 ELSE [calls |-> calls, raised |-> "",
                       data |-> d.multiline[1][1] \o <<NL>> \o data
                                \o d.multiline[1][2] \o <<NL>>]
        ELSE [calls |-> calls, raised |-> "", data |-> data]

\* A faulty sanitize_multiline: puts a newline between the text and the suffix
\* ("{}\n{}\n{}\n").
sanitize_multiline_ownline(data) ==
    LET r == repl[get_ft]
        calls == <<HostCall("buffer.options", "ft", 0, <<>>)>>
    IN  IF Contains(data, NL) /\ Truthy(r)
        THEN LET d == available_repls[r.obj]
             IN  IF d.multiline = NoKey
                 THEN [calls |-> calls, raised |-> "KeyError", data |-> <<>>]
                 ELSE [calls |-> calls, raised |-> "",
                       data |-> d.multiline[1][1] \o <<NL>> \o data \o <<NL>>
                                \o d.multiline[1][2] \o <<NL>>]
        ELSE [calls |-> calls, raised |-> "", data |-> data]

\* sanitize_multiline: the markers are those of the current file type's entry.
sanitize_multiline(data) ==
    LET r == repl[get_ft]
        calls == <<HostCall("buffer.options", "ft", 0, <<>>)>>
    IN  IF Contains(data, NL) /\ Truthy(r)
        THEN LET d == available_repls[r.obj]
             IN  IF d.multiline = NoKey
                 THEN [calls |-> calls, raised |-> "KeyError", data |-> <<>>]
                 ELSE [calls |-> calls, raised |-> "",
                       data |-> d.multiline[1][1] \o <<NL>> \o data
                                \o d.multiline[1][2] \o <<NL>>]
        ELSE [calls |-> calls, raised |-> "", data |-> data]

\* send_data(data, r), r an entry that is not None or {}.
send_data(data, r) ==
    LET d == available_repls[r.obj]
    IN  IF d.repl_id = NoKey
        THEN [calls |-> <<>>, raised |-> "KeyError"]
        ELSE [calls |-> <<HostCall("jobsend", "", d.repl_id[1], data)>>,
              raised |-> ""]

\* A faulty carriage_return: ends the text with a newline.
carriage_return_newline(text) == text \o <<NL>>

\* "{}\r".format(args[0])
carriage_return(text) == text \o <<CR>>

\* send_to_repl(args): args is <<text>> or <<text, file type>>.  What the
\* handler does when no nvim call raises: its calls and the exception it ends in.
send_to_repl(args) ==
    LET named == IF Len(args) > 1 THEN repl[args[2]] ELSE NoEntry
        r == IF Truthy(named) THEN named ELSE get_current_repl
        c1 == IF Truthy(named) THEN <<>>
              ELSE <<HostCall("buffer.options", "ft", 0, <<>>)>>
    IN  IF ~Truthy(r)
        THEN [calls |-> c1, raised |-> ""]
        ELSE LET d == available_repls[r.obj]
                 san == IF d.multiline # NoKey
                        THEN sanitize_multiline(args[1])
                        ELSE [calls |-> <<>>, raised |-> "",
                              data |-> carriage_return(args[1])]
                 sd == send_data(san.data, r)
             IN  IF san.raised # ""
                 THEN [calls |-> c1 \o san.calls, raised |-> san.raised]
                 ELSE [calls |-> c1 \o san.calls \o sd.calls, raised |-> sd.raised]

\* A handler that assigns nothing in the plugin: it makes the calls p.calls
\* and ends in the exception p.raised, if any.
Handler(op, target, text, name, p, callbacks) ==
    /\ trace' = Did(op, target, text, name, p.calls, <<>>, <<>>, callbacks,
                    p.raised, {}, FALSE)
    /\ UNCHANGED <<available_repls, repl, ft, jobs>>

\* IronSend(text) and IronSend(text, f)
IronSend(args) ==
    Handler("send", IF Len(args) > 1 THEN args[2] ELSE "", args[1], "",
            send_to_repl(args), <<>>)

\* IronSendMotion(kind): yank into register s, read it, send it.
send_motion_to_repl(kind, text) ==
    LET yank == << HostCall("command:normal", kind, 0, <<>>),
                   HostCall("getreg", "s", 0, <<>>) >>
        p == send_to_repl(<<text>>)
    IN  Handler("sendMotion", "", text, kind,
                [calls |-> yank \o p.calls, raised |-> p.raised], <<>>)

\* IronSendSpecial(name)
mapping_send(name) ==
    LET b == get_current_bindings
        fn == {c \in {e[2] : e \in b.fns} : <<name, c>> \in b.fns}
        calls == <<HostCall("buffer.options", "ft", 0, <<>>)>>
    IN  Handler("sendSpecial", "", <<>>, name,
                [calls |-> calls, raised |-> b.raised],
                IF b.raised = "" /\ fn # {} THEN <<CHOOSE c \in fn : TRUE>>
                ELSE <<>>)

Init ==
    /\ available_repls = iron_repls
    /\ repl = [f \in FileTypes |-> NoEntry]
    /\ ft \in FileTypes
    /\ jobs = <<>>
    /\ trace = Idle

\* The user moves to a buffer of another file type.
SetFiletype(f) ==
    /\ f # ft
    /\ ft' = f
    /\ trace' = Idle
    /\ UNCHANGED <<available_repls, repl, jobs>>

Next ==
    \/ get_repl
    \/ \E f \in FileTypes : prompt_query(f)
    \/ \E text \in Texts : IronSend(<<text>>)
    \/ \E text \in Texts, f \in FileTypes : IronSend(<<text, f>>)
    \/ \E kind \in {"line", "char"}, text \in Texts : send_motion_to_repl(kind, text)
    \/ \E name \in BindingNames : mapping_send(name)
    \/ \E f \in FileTypes : SetFiletype(f)

Spec == Init /\ [][Next]_vars

(***************************************************************************)
(* Properties.  A state whose trace.op is not "none" is the state right     *)
(* after that handler; trace.pre_repl and trace.pre_repls are the registry  *)
(* and the definitions right before it.                                     *)
(***************************************************************************)

\* The calls of the last handler to one nvim function.
CallsOf(fn) == SelectSeq(trace.calls, LAMBDA c : c.fn = fn)

\* The read of the current buffer's file type.
GetFtCall == HostCall("buffer.options", "ft", 0, <<>>)

\* The definition dict file type f's entry referred to before the handler.
PreDef(f) == trace.pre_repls[trace.pre_repl[f].obj]

\* Before the handler f had a session with a job handle.
PreAttached(f) ==
    /\ Truthy(trace.pre_repl[f])
    /\ PreDef(f).repl_id # NoKey

\* The jobs nvim has started for file type f.
JobsFor(f) == {i \in 1..Len(jobs) : jobs[i].ft = f}

\* C1 (as claimed): an open(f) that finds f's session already attached spawns
\* nothing and attaches nothing, so that f never has more than one job.
C1_NoDuplicateSpawn ==
    (trace.op = "open" /\ trace.raised = "" /\ PreAttached(trace.target))
        => /\ CallsOf("termopen") = <<>>
           /\ available_repls = trace.pre_repls
           /\ Cardinality(JobsFor(trace.target)) <= 1

\* C2: an open(f) that finds nothing leaves f's entry present and empty; every
\* later open(f) calls no detect(), reports that there is no REPL, starts
\* nothing and keeps the entry empty, whatever detect() would say by then.
C2_NegativeCache ==
    trace.op = "open" =>
        /\ (/\ ~trace.pre_repl[trace.target].present
            /\ ~trace.detectable
            /\ trace.raised # "DetectError")
              => repl[trace.target] = Entry(0)
        /\ trace.pre_repl[trace.target] = Entry(0)
              => /\ trace.detects = <<>>
                 /\ trace.env = {}
                 /\ repl[trace.target] = Entry(0)
                 /\ CallsOf("command:echomsg")
                       = <<HostCall("command:echomsg", trace.target, 0, <<>>)>>
                 /\ CallsOf("termopen") = <<>>
                 /\ available_repls = trace.pre_repls

\* C2 witness: open(f) on an empty entry while a definition of f is detectable.
C2_Witness ==
    /\ trace.op = "open"
    /\ trace.pre_repl[trace.target] = Entry(0)
    /\ trace.detectable

\* C3 (as claimed): send(text, f) with f named and without an entry forwards
\* nothing to any job.
C3_NamedAbsentNoEffect ==
    (/\ trace.op = "send"
     /\ trace.target # ""
     /\ ~trace.pre_repl[trace.target].present)
        => CallsOf("jobsend") = <<>>

\* C4 (as claimed): send(text) with no entry for the current file type makes
\* no nvim call at all and leaves the registry as it was.
C4_ZeroHostCalls ==
    (/\ trace.op = "send"
     /\ trace.target = ""
     /\ ~trace.pre_repl[trace.cur].present)
        => /\ trace.calls = <<>>
           /\ repl = trace.pre_repl

\* C4 (amended): send(text) with no entry for the current file type makes one
\* nvim call, the read of the current file type, and no other (no job input,
\* no message); it raises nothing and leaves registry and definitions as
\* they were.
C4_OnlyReadsFileType ==
    (/\ trace.op = "send"
     /\ trace.target = ""
     /\ ~trace.pre_repl[trace.cur].present)
        => /\ trace.calls = <<GetFtCall>>
           /\ trace.raised = ""
           /\ repl = trace.pre_repl
           /\ available_repls = trace.pre_repls

\* C4 witness: such a send while another file type has an attached session.
C4_Witness ==
    /\ trace.op = "send"
    /\ trace.target = ""
    /\ ~trace.pre_repl[trace.cur].present
    /\ \E g \in FileTypes : PreAttached(g)

\* open(f) found no REPL: it got to report it.
NoReplFound == trace.op = "open" /\ CallsOf("command:echomsg") # <<>>

\* C5 (as claimed): an open(f) that finds no REPL leaves the registry equal to
\* the registry before the call and creates no viewport, job or mapping.
C5_NoStateMutated ==
    NoReplFound
        => /\ repl = trace.pre_repl
           /\ available_repls = trace.pre_repls
           /\ CallsOf("command") = <<>>
           /\ CallsOf("termopen") = <<>>
           /\ CallsOf("command:nnoremap") = <<>>

\* C5 (amended): an open(f) that finds no REPL changes nothing but f's own
\* entry, which is present and empty afterwards (it is added by the first such
\* open); every other entry and every definition is as before, and no
\* viewport, job or mapping is created.
C5_OnlyNegativeEntryAdded ==
    NoReplFound
        => /\ repl = [trace.pre_repl EXCEPT ![trace.target] = Entry(0)]
           /\ trace.pre_repl[trace.target] \in {NoEntry, Entry(0)}
           /\ available_repls = trace.pre_repls
           /\ CallsOf("command") = <<>>
           /\ CallsOf("termopen") = <<>>
           /\ CallsOf("command:nnoremap") = <<>>

\* C5 witness: a first open(f) that finds no REPL, another file type having a
\* session.
C5_Witness ==
    /\ NoReplFound
    /\ ~trace.pre_repl[trace.target].present
    /\ \E g \in FileTypes : PreAttached(g)

\* send(text) while the current file type has an attached session.
SentToCurrent ==
    /\ trace.op = "send"
    /\ trace.target = ""
    /\ PreAttached(trace.cur)

\* C6 (as claimed): with markers (prefix, suffix) a text containing a newline
\* is forwarded as prefix, newline, text, newline, suffix, newline.
C6_SuffixOnOwnLine ==
    (/\ SentToCurrent
     /\ PreDef(trace.cur).multiline # NoKey
     /\ Contains(trace.text, NL))
        => trace.calls =
              << GetFtCall, GetFtCall,
                 HostCall("jobsend", "", PreDef(trace.cur).repl_id[1],
                          PreDef(trace.cur).multiline[1][1] \o <<NL>> \o trace.text
                          \o <<NL>> \o PreDef(trace.cur).multiline[1][2] \o <<NL>>) >>

\* C7: without markers, send(text) forwards exactly text and one carriage
\* return to the session's job, for every text.
C7_PlainGetsCarriageReturn ==
    (/\ SentToCurrent
     /\ PreDef(trace.cur).multiline = NoKey)
        => /\ trace.raised = ""
           /\ trace.calls =
                 << GetFtCall,
                    HostCall("jobsend", "", PreDef(trace.cur).repl_id[1],
                             trace.text \o <<CR>>) >>

\* C7 witness: a text with a newline sent to a session without markers.
C7_Witness ==
    /\ SentToCurrent
    /\ PreDef(trace.cur).multiline = NoKey
    /\ Contains(trace.text, NL)
    /\ CallsOf("jobsend") # <<>>

\* C8: with markers, a text without a newline is forwarded as it is: no
\* markers, no carriage return.
C8_SingleLineUnchanged ==
    (/\ SentToCurrent
     /\ PreDef(trace.cur).multiline # NoKey
     /\ ~Contains(trace.text, NL))
        => /\ trace.raised = ""
           /\ trace.calls =
                 << GetFtCall, GetFtCall,
                    HostCall("jobsend", "", PreDef(trace.cur).repl_id[1],
                             trace.text) >>

\* C8 witness: "x" sent to a session with markers.
C8_Witness ==
    /\ SentToCurrent
    /\ PreDef(trace.cur).multiline # NoKey
    /\ trace.text = <<"x">>
    /\ CallsOf("jobsend") # <<>>

\* The binding table of the current file type's session before the handler
\* (empty when there is no session or no table).
PreBindings ==
    IF Truthy(trace.pre_repl[trace.cur]) /\ PreDef(trace.cur).fns # NoKey
    THEN PreDef(trace.cur).fns[1]
    ELSE {}

\* sendSpecial(name) for a name the current session's table does not hold.
SpecialUnregistered ==
    /\ trace.op = "sendSpecial"
    /\ \A b \in PreBindings : b[1] # trace.name

\* C9 (as claimed): sendSpecial of an unregistered name makes no nvim call,
\* invokes no callback and leaves the registry as it was.
C9_ZeroHostCalls ==
    SpecialUnregistered
        => /\ trace.calls = <<>>
           /\ trace.callbacks = <<>>
           /\ repl = trace.pre_repl

\* C9 (amended): sendSpecial of an unregistered name makes one nvim call, the
\* read of the current file type, and no other; it invokes no callback and
\* leaves registry and definitions as they were.
C9_OnlyReadsFileType ==
    SpecialUnregistered
        => /\ trace.calls = <<GetFtCall>>
           /\ trace.callbacks = <<>>
           /\ repl = trace.pre_repl
           /\ available_repls = trace.pre_repls

\* C9 witness: an unregistered name, the current session having a table that
\* holds another name, and another session holding a table too.
C9_Witness ==
    /\ SpecialUnregistered
    /\ PreBindings # {}
    /\ \E g \in FileTypes \ {trace.cur} :
          /\ PreAttached(g)
          /\ PreDef(g).fns # NoKey

\* The outcome of detect() of definition i in the last lookup.
Probed(i, outcome) == <<i, outcome>> \in trace.env

\* C10: a lookup for f that returns gives the first definition, in the order
\* of available_repls, whose language is f and whose detect() is true at the
\* call, and the empty result when there is none.
C10_FirstDetected ==
    (trace.op = "open" /\ trace.template # <<>>)
        => LET ok == {i \in 1..Len(trace.pre_repls) :
                          /\ trace.pre_repls[i].language = trace.target
                          /\ Probed(i, "true")}
           IN  /\ \A i \in 1..Len(trace.pre_repls) :
                     trace.pre_repls[i].language = trace.target
                        => \E o \in DetectOutcomes : Probed(i, o)
               /\ IF ok = {}
                  THEN trace.template = <<0>>
                  ELSE /\ trace.template[1] \in ok
                       /\ \A i \in ok : trace.template[1] <= i

\* C10 witness: a lookup that passes over an earlier definition whose
\* detect() is false.
C10_Witness ==
    /\ trace.op = "open"
    /\ trace.template # <<>>
    /\ trace.template[1] # 0
    /\ \E i \in 1..Len(trace.pre_repls) :
          /\ i < trace.template[1]
          /\ trace.pre_repls[i].language = trace.target
          /\ Probed(i, "false")

\* C11 (as claimed): a detect() that raises counts as "not available": the
\* lookup goes on and returns the first later definition whose detect() is
\* true (or the empty result), and open(f) does not end in that error.
C11_DetectFailureIsUnavailable ==
    (/\ trace.op = "open"
     /\ ~trace.pre_repl[trace.target].present
     /\ \E i \in 1..Len(trace.pre_repls) : Probed(i, "raise"))
        => /\ trace.raised # "DetectError"
           /\ repl[trace.target].present
           /\ \A i \in 1..Len(trace.pre_repls) :
                 Probed(i, "true") => repl[trace.target].obj # 0

\* C12: an entry, once there, stays and keeps referring to the same dict
\* (the empty one or the definition chosen by the first open), whatever the
\* handler and whatever detect() says by then; a definition is only ever
\* held by the entry of its own language.
C12_RegistryOnlyExtended ==
    \A f \in FileTypes :
        /\ trace.pre_repl[f].present => repl[f] = trace.pre_repl[f]
        /\ Truthy(repl[f]) => available_repls[repl[f].obj].language = f

\* C12 witness: open(f) on an entry that holds the second definition of f,
\* run to its end while some definition of f is detectable.
C12_Witness ==
    /\ trace.op = "open"
    /\ trace.raised = ""
    /\ trace.detectable
    /\ Truthy(trace.pre_repl[trace.target])
    /\ trace.pre_repl[trace.target].obj # Candidates(trace.target)[1]
    /\ repl[trace.target] = trace.pre_repl[trace.target]

\* C13 (as claimed): no handler changes a definition of available_repls; the
\* job handle and the binding table are never written into it.
C13_CatalogImmutable ==
    /\ available_repls = iron_repls
    /\ \A i \in 1..Len(available_repls) :
          /\ available_repls[i].fns = NoKey
          /\ available_repls[i].repl_id = NoKey

\* C14: with markers (prefix, suffix), send(text) of a text with a newline to
\* the current file type's attached session forwards exactly
\* prefix + "\n" + text + suffix + "\n" to that session's job.
C14_WrappedPayload ==
    (/\ SentToCurrent
     /\ PreDef(trace.cur).multiline # NoKey
     /\ Contains(trace.text, NL))
        => /\ trace.raised = ""
           /\ CallsOf("jobsend") =
                 << HostCall("jobsend", "", PreDef(trace.cur).repl_id[1],
                             PreDef(trace.cur).multiline[1][1] \o <<NL>> \o trace.text
                             \o PreDef(trace.cur).multiline[1][2] \o <<NL>>) >>

\* C14 witness: "a\nb" sent to the current session with markers.
C14_Witness ==
    /\ SentToCurrent
    /\ PreDef(trace.cur).multiline # NoKey
    /\ trace.text = <<"a", NL, "b">>
    /\ CallsOf("jobsend") # <<>>

\* The payload the definition d prescribes for a text: wrapped when d has
\* markers and the text a newline, unchanged when d has markers and the text
\* none, ended by a carriage return when d has no markers.
PayloadFor(d, text) ==
    IF d.multiline = NoKey THEN text \o <<CR>>
    ELSE IF Contains(text, NL)
    THEN d.multiline[1][1] \o <<NL>> \o text \o d.multiline[1][2] \o <<NL>>
    ELSE text

\* C15 (as claimed): send(text, f) to the attached session of a file type f
\* other than the current one wraps, or not, by f's definition alone: it
\* raises nothing and forwards the payload f's definition prescribes,
\* whatever entry the current file type has.
C15_MarkersOfResolvedSession ==
    (/\ trace.op = "send"
     /\ trace.target # ""
     /\ trace.target # trace.cur
     /\ PreAttached(trace.target))
        => /\ trace.raised = ""
           /\ CallsOf("jobsend") =
                 << HostCall("jobsend", "", PreDef(trace.target).repl_id[1],
                             PayloadFor(PreDef(trace.target), trace.text)) >>

\* The file type whose session a send resolves to: the named one when it has
\* a definition, the current one otherwise.
ResolvedFt ==
    IF trace.target # "" /\ Truthy(trace.pre_repl[trace.target])
    THEN trace.target
    ELSE trace.cur

\* C16 (as claimed): every payload a send forwards goes to the job of the
\* most recent successful termopen for the resolved session's file type.
C16_LatestJobOfResolvedSession ==
    trace.op \in {"send", "sendMotion"} =>
        \A k \in 1..Len(trace.calls) :
            trace.calls[k].fn = "jobsend" =>
                /\ JobsFor(ResolvedFt) # {}
                /\ trace.calls[k].job \in JobsFor(ResolvedFt)
                /\ \A i \in JobsFor(ResolvedFt) : i <= trace.calls[k].job

\* C17 (as claimed): every entry that holds a definition has a job handle and
\* a binding table, also after an open in which an nvim call raised; so no
\* send or sendSpecial ends in an exception of the plugin itself.
C17_NoPartialSession ==
    /\ \A f \in FileTypes :
          Truthy(repl[f]) =>
              /\ available_repls[repl[f].obj].repl_id # NoKey
              /\ available_repls[repl[f].obj].fns # NoKey
    /\ (/\ trace.op \in {"send", "sendMotion", "sendSpecial"}
        /\ Truthy(trace.pre_repl[ResolvedFt]))
          => trace.raised # "KeyError"

\* C18 (as claimed): sendSpecial(name) while the current file type has no
\* entry invokes no callback and raises nothing.
C18_SpecialWithoutEntryIsNoop ==
    (/\ trace.op = "sendSpecial"
     /\ ~trace.pre_repl[trace.cur].present)
        => /\ trace.raised = ""
           /\ trace.callbacks = <<>>

\* C19: open(f) leaves every other file type's entry as it was, and with it
\* the definition, job handle and binding table that entry holds, whether the
\* open runs to its end, finds no REPL or stops in a raising call.
C19_OtherEntriesUntouched ==
    trace.op = "open" =>
        \A g \in FileTypes \ {trace.target} :
            /\ repl[g] = trace.pre_repl[g]
            /\ Truthy(repl[g])
                  => available_repls[repl[g].obj] = trace.pre_repls[repl[g].obj]

\* C19 witness: an open(f) that stops in a raising call after it has written
\* to f's definition, another file type having an attached session.
C19_Witness ==
    /\ trace.op = "open"
    /\ trace.raised = "HostError"
    /\ available_repls # trace.pre_repls
    /\ \E g \in FileTypes \ {trace.target} : PreAttached(g)
====
